---- MODULE Spec2Model ----
(***************************************************************************)
(* A model of package pool (src/pool/pool.go): a Pool of io.Closer         *)
(* resources kept in a buffered channel, a factory that allocates new      *)
(* ones, and a closed flag guarded by a mutex shared by Release and Close. *)
(*                                                                         *)
(* Every goroutine that uses the pool is a thread of the model.  A thread  *)
(* is either idle or inside one call of Acquire, Release or Close, at the  *)
(* statement its pc names.  One action is one statement that touches the   *)
(* shared state (the channel, the mutex, the flag, a resource).            *)
(***************************************************************************)
EXTENDS Integers, Sequences, FiniteSets, TLC

\* Number of goroutines using the pool.
NumThreads == 2
\* Largest size passed to New.
MaxSize == 2
\* Largest number of factory invocations in a run of interleaved goroutines.
MaxFactory == 2
\* Largest number of factory invocations in a run of a single goroutine.
MaxFactorySeq == 3

Threads == 1..NumThreads
\* The resources the factory can hand out: its k-th invocation allocates k.
Res == 1..(IF MaxFactory > MaxFactorySeq THEN MaxFactory ELSE MaxFactorySeq)
\* Number of past calls the history keeps.
HistLen == MaxSize + 2

\* Go's nil (no resource, no pool).
Nil == 0
NoErr == "nil"
ErrPoolClosed == "pool has been closed"
ErrSize == "size value too small"
ErrFactory == "factory error"

VARIABLES
    constructed,   \* New has returned a *Pool
    capacity,      \* cap(p.resources)
    newRet,        \* what the last call of New was given and what it returned
    resources,     \* p.resources: the values buffered in the channel, oldest first
    chanClosed,    \* close(p.resources) has happened
    closed,        \* p.closed
    m,             \* p.m: the thread that holds the mutex, 0 when it is free
    factoryCalls,  \* number of invocations of p.factory
    closeCount,    \* per resource, the number of invocations of its Close()
    panicked,      \* the program has panicked (send on / close of a closed channel)
    pc,            \* per thread, the statement it is at
    r,             \* per thread, the local variable r of the function it is in
    ret,           \* per thread, what its call of Acquire is returning
    held,          \* per thread, the resources it acquired and has not released
    how,           \* per thread, the path its call has taken
    pre,           \* per thread, the channel buffer when its call began
    late,          \* per thread, whether its call began after a Close had returned
    closeDone,     \* some call of Close has returned
    lateMade,      \* the resources the factory allocated while p.closed was set
    hist           \* the observer of consecutive calls: whether it is on, and
                   \* the last HistLen calls that returned, oldest first

vars == <<constructed, capacity, newRet, resources, chanClosed, closed, m,
          factoryCalls, closeCount, panicked, pc, r, ret, held, how, pre,
          late, closeDone, lateMade, hist>>

NoRet == [r |-> Nil, err |-> NoErr]

\* The function thread t is in.
InAcquire(t) == pc[t] \in {"acq_select", "acq_factory", "acq_ret"}
InRelease(t) == pc[t] \in {"rel_lock", "rel_check", "rel_close", "rel_select",
                           "rel_discard", "rel_unlock"}
InClose(t) == pc[t] \in {"close_lock", "close_check", "close_set", "close_chan",
                         "close_recv", "close_res", "close_unlock"}
Op(t) == IF InAcquire(t) THEN "Acquire"
         ELSE IF InRelease(t) THEN "Release"
         ELSE IF InClose(t) THEN "Close"
         ELSE "none"

\* The state before New is called, common to both specifications.
Start ==
    /\ constructed = FALSE
    /\ capacity = 0
    /\ newRet = [called |-> FALSE, size |-> 0, pool |-> FALSE, err |-> NoErr]
    /\ resources = <<>>
    /\ chanClosed = FALSE
    /\ closed = FALSE
    /\ m = 0
    /\ factoryCalls = 0
    /\ closeCount = [x \in Res |-> 0]
    /\ panicked = FALSE
    /\ pc = [t \in Threads |-> "idle"]
    /\ r = [t \in Threads |-> Nil]
    /\ ret = [t \in Threads |-> NoRet]
    /\ held = [t \in Threads |-> {}]
    /\ how = [t \in Threads |-> "none"]
    /\ pre = [t \in Threads |-> <<>>]
    /\ late = [t \in Threads |-> FALSE]
    /\ closeDone = FALSE
    /\ lateMade = {}

\* Goroutines interleave freely; the observer of consecutive calls is off.
Init == Start /\ hist = [on |-> FALSE, calls |-> <<>>]

\* One goroutine makes one call after another; the observer is on.
InitSeq == Start /\ hist = [on |-> TRUE, calls |-> <<>>]

\* s with e appended, cut to its last HistLen entries.
Remember(s, e) ==
    IF Len(s) < HistLen THEN Append(s, e) ELSE Append(Tail(s), e)

\* Thread t's call returns res by way of path: its frame is gone, it is idle
\* again, and the observer, when on, records the call.
Return(t, res, path) ==
    /\ pc' = [pc EXCEPT ![t] = "idle"]
    /\ r' = [r EXCEPT ![t] = Nil]
    /\ how' = [how EXCEPT ![t] = "none"]
    /\ pre' = [pre EXCEPT ![t] = <<>>]
    /\ late' = [late EXCEPT ![t] = FALSE]
    /\ hist' = IF hist.on
               THEN [hist EXCEPT !.calls =
                        Remember(@, [op |-> Op(t), r |-> res, how |-> path,
                                     pre |-> pre[t]])]
               ELSE hist

\* Thread t enters a function at statement first, with x for its r.
Enter(t, first, x) ==
    /\ constructed
    /\ ~panicked
    /\ pc[t] = "idle"
    /\ pc' = [pc EXCEPT ![t] = first]
    /\ r' = [r EXCEPT ![t] = x]
    /\ how' = [how EXCEPT ![t] = "none"]
    /\ pre' = [pre EXCEPT ![t] = resources]
    /\ late' = [late EXCEPT ![t] = closeDone]

\* r.Close() on resource x.
ResourceClose(x) ==
    closeCount' = [closeCount EXCEPT ![x] = @ + 1]

----------------------------------------------------------------------------
\* New(fn, size)

\* New with the test size < 0, which no uint satisfies: size 0 is accepted.
NewAcceptsZero(size) ==
    /\ ~constructed
    /\ ~panicked
    /\ IF size < 0
       THEN /\ newRet' = [called |-> TRUE, size |-> size, pool |-> FALSE,
                          err |-> ErrSize]
            /\ UNCHANGED <<constructed, capacity>>
       ELSE /\ constructed' = TRUE
            /\ capacity' = size
            /\ newRet' = [called |-> TRUE, size |-> size, pool |-> TRUE,
                          err |-> NoErr]
    /\ resources' = <<>>
    /\ chanClosed' = FALSE
    /\ closed' = FALSE
    /\ m' = 0
    /\ UNCHANGED <<factoryCalls, closeCount, panicked, pc, r, ret, held, how,
                   pre, late, closeDone, hist>>
    /\ lateMade' = lateMade

New(size) ==
    /\ ~constructed
    /\ ~panicked
    /\ IF size <= 0
       THEN /\ newRet' = [called |-> TRUE, size |-> size, pool |-> FALSE,
                          err |-> ErrSize]
            /\ UNCHANGED <<constructed, capacity>>
       ELSE /\ constructed' = TRUE
            /\ capacity' = size
            /\ newRet' = [called |-> TRUE, size |-> size, pool |-> TRUE,
                          err |-> NoErr]
    /\ resources' = <<>>
    /\ chanClosed' = FALSE
    /\ closed' = FALSE
    /\ m' = 0
    /\ UNCHANGED <<factoryCalls, closeCount, panicked, pc, r, ret, held, how,
                   pre, late, closeDone, hist>>
    /\ lateMade' = lateMade

----------------------------------------------------------------------------
\* (p *Pool) Acquire()

\* The calls of Acquire that have begun and may still invoke the factory.
Acquiring == {t \in Threads : pc[t] \in {"acq_select", "acq_factory"}}

\* The factory invocations the run may make.
Budget == IF hist.on THEN MaxFactorySeq ELSE MaxFactory

AcquireCall(t) ==
    /\ factoryCalls + Cardinality(Acquiring) < Budget
    /\ Enter(t, "acq_select", Nil)
    /\ UNCHANGED <<constructed, capacity, newRet, resources, chanClosed, closed,
                   m, factoryCalls, closeCount, panicked, ret, held, closeDone,
                   hist>>
    /\ lateMade' = lateMade

\* AcquireSelect without the test of ok: a receive on the closed, empty
\* channel is returned as a resource, nil and no error.
AcquireSelectNoOk(t) ==
    /\ ~panicked
    /\ pc[t] = "acq_select"
    /\ IF Len(resources) > 0
       THEN /\ resources' = Tail(resources)
            /\ r' = [r EXCEPT ![t] = Head(resources)]
            /\ ret' = [ret EXCEPT ![t] = [r |-> Head(resources), err |-> NoErr]]
            /\ pc' = [pc EXCEPT ![t] = "acq_ret"]
            /\ how' = [how EXCEPT ![t] = "reuse"]
       ELSE IF chanClosed
       THEN /\ ret' = [ret EXCEPT ![t] = [r |-> Nil, err |-> NoErr]]
            /\ pc' = [pc EXCEPT ![t] = "acq_ret"]
            /\ how' = [how EXCEPT ![t] = "reuse"]
            /\ UNCHANGED <<resources, r>>
       ELSE /\ pc' = [pc EXCEPT ![t] = "acq_factory"]
            /\ how' = [how EXCEPT ![t] = "manufacture"]
            /\ UNCHANGED <<resources, r, ret>>
    /\ UNCHANGED <<constructed, capacity, newRet, chanClosed, closed, m,
                   factoryCalls, closeCount, panicked, held, pre, late,
                   closeDone, hist>>
    /\ lateMade' = lateMade

\* AcquireSelect that returns the oldest buffered resource and leaves it in
\* the buffer.
AcquireSelectPeek(t) ==
    /\ ~panicked
    /\ pc[t] = "acq_select"
    /\ IF Len(resources) > 0
       THEN /\ r' = [r EXCEPT ![t] = Head(resources)]
            /\ ret' = [ret EXCEPT ![t] = [r |-> Head(resources), err |-> NoErr]]
            /\ pc' = [pc EXCEPT ![t] = "acq_ret"]
            /\ how' = [how EXCEPT ![t] = "reuse"]
       ELSE IF chanClosed
       THEN /\ ret' = [ret EXCEPT ![t] = [r |-> Nil, err |-> ErrPoolClosed]]
            /\ pc' = [pc EXCEPT ![t] = "acq_ret"]
            /\ how' = [how EXCEPT ![t] = "closed"]
            /\ r' = r
       ELSE /\ pc' = [pc EXCEPT ![t] = "acq_factory"]
            /\ how' = [how EXCEPT ![t] = "manufacture"]
            /\ UNCHANGED <<r, ret>>
    /\ UNCHANGED <<constructed, capacity, newRet, resources, chanClosed, closed,
                   m, factoryCalls, closeCount, panicked, held, pre, late,
                   closeDone, hist>>
    /\ lateMade' = lateMade

\* AcquireSelect that never takes a buffered resource: it manufactures
\* whenever the channel is open.
AcquireSelectNoReuse(t) ==
    /\ ~panicked
    /\ pc[t] = "acq_select"
    /\ IF chanClosed /\ Len(resources) = 0
       THEN /\ ret' = [ret EXCEPT ![t] = [r |-> Nil, err |-> ErrPoolClosed]]
            /\ pc' = [pc EXCEPT ![t] = "acq_ret"]
            /\ how' = [how EXCEPT ![t] = "closed"]
       ELSE /\ pc' = [pc EXCEPT ![t] = "acq_factory"]
            /\ how' = [how EXCEPT ![t] = "manufacture"]
            /\ ret' = ret
    /\ UNCHANGED <<constructed, capacity, newRet, resources, chanClosed, closed,
                   m, factoryCalls, closeCount, panicked, r, held, pre, late,
                   closeDone, hist>>
    /\ lateMade' = lateMade

\* AcquireSelect under the mutex: it waits until p.m is free.
AcquireSelectLocked(t) ==
    /\ ~panicked
    /\ pc[t] = "acq_select"
    /\ m = 0
    /\ IF Len(resources) > 0
       THEN /\ resources' = Tail(resources)
            /\ r' = [r EXCEPT ![t] = Head(resources)]
            /\ ret' = [ret EXCEPT ![t] = [r |-> Head(resources), err |-> NoErr]]
            /\ pc' = [pc EXCEPT ![t] = "acq_ret"]
            /\ how' = [how EXCEPT ![t] = "reuse"]
       ELSE IF chanClosed
       THEN /\ ret' = [ret EXCEPT ![t] = [r |-> Nil, err |-> ErrPoolClosed]]
            /\ pc' = [pc EXCEPT ![t] = "acq_ret"]
            /\ how' = [how EXCEPT ![t] = "closed"]
            /\ UNCHANGED <<resources, r>>
       ELSE /\ pc' = [pc EXCEPT ![t] = "acq_factory"]
            /\ how' = [how EXCEPT ![t] = "manufacture"]
            /\ UNCHANGED <<resources, r, ret>>
    /\ UNCHANGED <<constructed, capacity, newRet, chanClosed, closed, m,
                   factoryCalls, closeCount, panicked, held, pre, late,
                   closeDone, lateMade, hist>>

\* select { case r, ok := <-p.resources: ...; default: ... }
AcquireSelect(t) ==
    /\ ~panicked
    /\ pc[t] = "acq_select"
    /\ IF Len(resources) > 0
       THEN \* a buffered value is received, ok is true: return r, nil
            /\ resources' = Tail(resources)
            /\ r' = [r EXCEPT ![t] = Head(resources)]
            /\ ret' = [ret EXCEPT ![t] = [r |-> Head(resources), err |-> NoErr]]
            /\ pc' = [pc EXCEPT ![t] = "acq_ret"]
            /\ how' = [how EXCEPT ![t] = "reuse"]
       ELSE IF chanClosed
       THEN \* the receive on the closed, empty channel yields ok = false:
            \* return nil, ErrPoolClosed
            /\ ret' = [ret EXCEPT ![t] = [r |-> Nil, err |-> ErrPoolClosed]]
            /\ pc' = [pc EXCEPT ![t] = "acq_ret"]
            /\ how' = [how EXCEPT ![t] = "closed"]
            /\ UNCHANGED <<resources, r>>
       ELSE \* no case is ready: default
            /\ pc' = [pc EXCEPT ![t] = "acq_factory"]
            /\ how' = [how EXCEPT ![t] = "manufacture"]
            /\ UNCHANGED <<resources, r, ret>>
    /\ UNCHANGED <<constructed, capacity, newRet, chanClosed, closed, m,
                   factoryCalls, closeCount, panicked, held, pre, late,
                   closeDone, hist>>
    /\ lateMade' = lateMade

\* AcquireFactory that drops the factory's error: a failure is returned as
\* nil and no error.
AcquireFactoryDropsError(t) ==
    /\ ~panicked
    /\ pc[t] = "acq_factory"
    /\ factoryCalls' = factoryCalls + 1
    /\ \E ok \in BOOLEAN :
          ret' = [ret EXCEPT ![t] =
                     IF ok THEN [r |-> factoryCalls + 1, err |-> NoErr]
                           ELSE [r |-> Nil, err |-> NoErr]]
    /\ pc' = [pc EXCEPT ![t] = "acq_ret"]
    /\ UNCHANGED <<constructed, capacity, newRet, resources, chanClosed, closed,
                   m, closeCount, panicked, r, held, how, pre, late, closeDone,
                   hist>>
    /\ lateMade' = IF closed /\ ret'[t].r # Nil
                   THEN lateMade \cup {ret'[t].r} ELSE lateMade

\* return p.factory(): the factory allocates a new resource or fails.
AcquireFactory(t) ==
    /\ ~panicked
    /\ pc[t] = "acq_factory"
    /\ factoryCalls' = factoryCalls + 1
    /\ \E ok \in BOOLEAN :
          ret' = [ret EXCEPT ![t] =
                     IF ok THEN [r |-> factoryCalls + 1, err |-> NoErr]
                           ELSE [r |-> Nil, err |-> ErrFactory]]
    /\ pc' = [pc EXCEPT ![t] = "acq_ret"]
    /\ UNCHANGED <<constructed, capacity, newRet, resources, chanClosed, closed,
                   m, closeCount, panicked, r, held, how, pre, late, closeDone,
                   hist>>
    /\ lateMade' = IF closed /\ ret'[t].r # Nil
                   THEN lateMade \cup {ret'[t].r} ELSE lateMade

\* The caller receives what Acquire returned, and holds the resource if any.
AcquireReturn(t) ==
    /\ ~panicked
    /\ pc[t] = "acq_ret"
    /\ held' = [held EXCEPT ![t] =
                   IF ret[t].r = Nil THEN @ ELSE @ \cup {ret[t].r}]
    /\ ret' = [ret EXCEPT ![t] = NoRet]
    /\ Return(t, ret[t].r, how[t])
    /\ UNCHANGED <<constructed, capacity, newRet, resources, chanClosed, closed,
                   m, factoryCalls, closeCount, panicked, closeDone>>
    /\ lateMade' = lateMade

----------------------------------------------------------------------------
\* (p *Pool) Release(r)

\* A caller releases a resource it holds.
ReleaseCall(t, x) ==
    /\ x \in held[t]
    /\ Enter(t, "rel_lock", x)
    /\ held' = [held EXCEPT ![t] = @ \ {x}]
    /\ UNCHANGED <<constructed, capacity, newRet, resources, chanClosed, closed,
                   m, factoryCalls, closeCount, panicked, ret, closeDone, hist>>
    /\ lateMade' = lateMade

\* ReleaseLock that does not take the mutex.
ReleaseLockNoWait(t) ==
    /\ ~panicked
    /\ pc[t] = "rel_lock"
    /\ pc' = [pc EXCEPT ![t] = "rel_check"]
    /\ UNCHANGED <<constructed, capacity, newRet, resources, chanClosed, closed,
                   m, factoryCalls, closeCount, panicked, r, ret, held, how,
                   pre, late, closeDone, lateMade, hist>>

\* p.m.Lock()
ReleaseLock(t) ==
    /\ ~panicked
    /\ pc[t] = "rel_lock"
    /\ m = 0
    /\ m' = t
    /\ pc' = [pc EXCEPT ![t] = "rel_check"]
    /\ UNCHANGED <<constructed, capacity, newRet, resources, chanClosed, closed,
                   factoryCalls, closeCount, panicked, r, ret, held, how,
                   pre, late, closeDone, hist>>
    /\ lateMade' = lateMade

\* ReleaseCheck without the test of p.closed.
ReleaseCheckIgnoresClosed(t) ==
    /\ ~panicked
    /\ pc[t] = "rel_check"
    /\ pc' = [pc EXCEPT ![t] = "rel_select"]
    /\ UNCHANGED <<constructed, capacity, newRet, resources, chanClosed, closed,
                   m, factoryCalls, closeCount, panicked, r, ret, held, how,
                   pre, late, closeDone, hist>>
    /\ lateMade' = lateMade

\* if p.closed
ReleaseCheck(t) ==
    /\ ~panicked
    /\ pc[t] = "rel_check"
    /\ IF closed
       THEN /\ pc' = [pc EXCEPT ![t] = "rel_close"]
            /\ how' = [how EXCEPT ![t] = "discard_closed"]
       ELSE /\ pc' = [pc EXCEPT ![t] = "rel_select"]
            /\ how' = how
    /\ UNCHANGED <<constructed, capacity, newRet, resources, chanClosed, closed,
                   m, factoryCalls, closeCount, panicked, r, ret, held,
                   pre, late, closeDone, hist>>
    /\ lateMade' = lateMade

\* ReleaseClose that drops the resource without closing it.
ReleaseCloseLeak(t) ==
    /\ ~panicked
    /\ pc[t] = "rel_close"
    /\ pc' = [pc EXCEPT ![t] = "rel_unlock"]
    /\ UNCHANGED <<constructed, capacity, newRet, resources, chanClosed, closed,
                   m, factoryCalls, closeCount, panicked, r, ret, held, how,
                   pre, late, closeDone, lateMade, hist>>

\* r.Close(); return   (the pool is closed)
ReleaseClose(t) ==
    /\ ~panicked
    /\ pc[t] = "rel_close"
    /\ ResourceClose(r[t])
    /\ pc' = [pc EXCEPT ![t] = "rel_unlock"]
    /\ UNCHANGED <<constructed, capacity, newRet, resources, chanClosed, closed,
                   m, factoryCalls, panicked, r, ret, held, how, pre, late,
                   closeDone, hist>>
    /\ lateMade' = lateMade

\* ReleaseSelect with r.Close() after the select instead of in its default
\* case: a queued resource is closed as well.
ReleaseSelectCloseAfter(t) ==
    /\ ~panicked
    /\ pc[t] = "rel_select"
    /\ IF chanClosed
       THEN /\ panicked' = TRUE
            /\ UNCHANGED <<resources, pc, how>>
       ELSE IF Len(resources) < capacity
       THEN /\ resources' = Append(resources, r[t])
            /\ pc' = [pc EXCEPT ![t] = "rel_discard"]
            /\ how' = [how EXCEPT ![t] = "queued"]
            /\ panicked' = panicked
       ELSE /\ pc' = [pc EXCEPT ![t] = "rel_discard"]
            /\ how' = [how EXCEPT ![t] = "discard_full"]
            /\ UNCHANGED <<resources, panicked>>
    /\ UNCHANGED <<constructed, capacity, newRet, chanClosed, closed, m,
                   factoryCalls, closeCount, r, ret, held, pre, late,
                   closeDone, hist>>
    /\ lateMade' = lateMade

\* select { case p.resources <- r: ...; default: ... }
ReleaseSelect(t) ==
    /\ ~panicked
    /\ pc[t] = "rel_select"
    /\ IF chanClosed
       THEN \* a send on a closed channel panics
            /\ panicked' = TRUE
            /\ UNCHANGED <<resources, pc, how>>
       ELSE IF Len(resources) < capacity
       THEN /\ resources' = Append(resources, r[t])
            /\ pc' = [pc EXCEPT ![t] = "rel_unlock"]
            /\ how' = [how EXCEPT ![t] = "queued"]
            /\ panicked' = panicked
       ELSE /\ pc' = [pc EXCEPT ![t] = "rel_discard"]
            /\ how' = [how EXCEPT ![t] = "discard_full"]
            /\ UNCHANGED <<resources, panicked>>
    /\ UNCHANGED <<constructed, capacity, newRet, chanClosed, closed, m,
                   factoryCalls, closeCount, r, ret, held, pre, late,
                   closeDone, hist>>
    /\ lateMade' = lateMade

\* ReleaseDiscard that drops the resource without closing it.
ReleaseDiscardLeak(t) ==
    /\ ~panicked
    /\ pc[t] = "rel_discard"
    /\ pc' = [pc EXCEPT ![t] = "rel_unlock"]
    /\ UNCHANGED <<constructed, capacity, newRet, resources, chanClosed, closed,
                   m, factoryCalls, closeCount, panicked, r, ret, held, how,
                   pre, late, closeDone, hist>>
    /\ lateMade' = lateMade

\* r.Close()   (the queue is at capacity)
ReleaseDiscard(t) ==
    /\ ~panicked
    /\ pc[t] = "rel_discard"
    /\ ResourceClose(r[t])
    /\ pc' = [pc EXCEPT ![t] = "rel_unlock"]
    /\ UNCHANGED <<constructed, capacity, newRet, resources, chanClosed, closed,
                   m, factoryCalls, panicked, r, ret, held, how, pre, late,
                   closeDone, hist>>
    /\ lateMade' = lateMade

\* defer p.m.Unlock(), and the return
ReleaseUnlock(t) ==
    /\ ~panicked
    /\ pc[t] = "rel_unlock"
    /\ m' = 0
    /\ Return(t, r[t], how[t])
    /\ UNCHANGED <<constructed, capacity, newRet, resources, chanClosed, closed,
                   factoryCalls, closeCount, panicked, ret, held, closeDone>>
    /\ lateMade' = lateMade

----------------------------------------------------------------------------
\* (p *Pool) Close()

CloseCall(t) ==
    /\ Enter(t, "close_lock", Nil)
    /\ UNCHANGED <<constructed, capacity, newRet, resources, chanClosed, closed,
                   m, factoryCalls, closeCount, panicked, ret, held, closeDone,
                   hist>>
    /\ lateMade' = lateMade

\* p.m.Lock()
CloseLock(t) ==
    /\ ~panicked
    /\ pc[t] = "close_lock"
    /\ m = 0
    /\ m' = t
    /\ pc' = [pc EXCEPT ![t] = "close_check"]
    /\ UNCHANGED <<constructed, capacity, newRet, resources, chanClosed, closed,
                   factoryCalls, closeCount, panicked, r, ret, held, how,
                   pre, late, closeDone, hist>>
    /\ lateMade' = lateMade

\* CloseCheck without the early return of an already closed pool.
CloseCheckAlways(t) ==
    /\ ~panicked
    /\ pc[t] = "close_check"
    /\ pc' = [pc EXCEPT ![t] = "close_set"]
    /\ how' = [how EXCEPT ![t] = "shutdown"]
    /\ UNCHANGED <<constructed, capacity, newRet, resources, chanClosed, closed,
                   m, factoryCalls, closeCount, panicked, r, ret, held,
                   pre, late, closeDone, hist>>
    /\ lateMade' = lateMade

\* if p.closed { return }
CloseCheck(t) ==
    /\ ~panicked
    /\ pc[t] = "close_check"
    /\ IF closed
       THEN /\ pc' = [pc EXCEPT ![t] = "close_unlock"]
            /\ how' = [how EXCEPT ![t] = "noop"]
       ELSE /\ pc' = [pc EXCEPT ![t] = "close_set"]
            /\ how' = [how EXCEPT ![t] = "shutdown"]
    /\ UNCHANGED <<constructed, capacity, newRet, resources, chanClosed, closed,
                   m, factoryCalls, closeCount, panicked, r, ret, held,
                   pre, late, closeDone, hist>>
    /\ lateMade' = lateMade

\* p.closed = true
CloseSet(t) ==
    /\ ~panicked
    /\ pc[t] = "close_set"
    /\ closed' = TRUE
    /\ pc' = [pc EXCEPT ![t] = "close_chan"]
    /\ UNCHANGED <<constructed, capacity, newRet, resources, chanClosed, m,
                   factoryCalls, closeCount, panicked, r, ret, held, how,
                   pre, late, closeDone, hist>>
    /\ lateMade' = lateMade

\* CloseChan that leaves the channel open before the drain.
CloseChanSkip(t) ==
    /\ ~panicked
    /\ pc[t] = "close_chan"
    /\ pc' = [pc EXCEPT ![t] = "close_recv"]
    /\ UNCHANGED <<constructed, capacity, newRet, resources, chanClosed, closed,
                   m, factoryCalls, closeCount, panicked, r, ret, held, how,
                   pre, late, closeDone, lateMade, hist>>

\* close(p.resources)
CloseChan(t) ==
    /\ ~panicked
    /\ pc[t] = "close_chan"
    /\ IF chanClosed
       THEN \* closing a closed channel panics
            /\ panicked' = TRUE
            /\ UNCHANGED <<chanClosed, pc>>
       ELSE /\ chanClosed' = TRUE
            /\ pc' = [pc EXCEPT ![t] = "close_recv"]
            /\ panicked' = panicked
    /\ UNCHANGED <<constructed, capacity, newRet, resources, closed, m,
                   factoryCalls, closeCount, r, ret, held, how, pre, late,
                   closeDone, hist>>
    /\ lateMade' = lateMade

\* for r := range p.resources: the next value, or the end of the loop once
\* the channel is closed and empty; the receive blocks on an open, empty one.
CloseRecv(t) ==
    /\ ~panicked
    /\ pc[t] = "close_recv"
    /\ Len(resources) > 0 \/ chanClosed
    /\ IF Len(resources) > 0
       THEN /\ r' = [r EXCEPT ![t] = Head(resources)]
            /\ resources' = Tail(resources)
            /\ pc' = [pc EXCEPT ![t] = "close_res"]
       ELSE /\ pc' = [pc EXCEPT ![t] = "close_unlock"]
            /\ UNCHANGED <<r, resources>>
    /\ UNCHANGED <<constructed, capacity, newRet, chanClosed, closed, m,
                   factoryCalls, closeCount, panicked, ret, held, how, pre,
                   late, closeDone, hist>>
    /\ lateMade' = lateMade

\* CloseRes that drops the drained resource without closing it.
CloseResSkip(t) ==
    /\ ~panicked
    /\ pc[t] = "close_res"
    /\ pc' = [pc EXCEPT ![t] = "close_recv"]
    /\ UNCHANGED <<constructed, capacity, newRet, resources, chanClosed, closed,
                   m, factoryCalls, closeCount, panicked, r, ret, held, how,
                   pre, late, closeDone, hist>>
    /\ lateMade' = lateMade

\* r.Close()   (the loop body)
CloseRes(t) ==
    /\ ~panicked
    /\ pc[t] = "close_res"
    /\ ResourceClose(r[t])
    /\ pc' = [pc EXCEPT ![t] = "close_recv"]
    /\ UNCHANGED <<constructed, capacity, newRet, resources, chanClosed, closed,
                   m, factoryCalls, panicked, r, ret, held, how, pre, late,
                   closeDone, hist>>
    /\ lateMade' = lateMade

\* CloseUnlock that clears p.closed when Close returns.
CloseUnlockReopens(t) ==
    /\ ~panicked
    /\ pc[t] = "close_unlock"
    /\ m' = 0
    /\ closed' = FALSE
    /\ closeDone' = TRUE
    /\ Return(t, Nil, how[t])
    /\ UNCHANGED <<constructed, capacity, newRet, resources, chanClosed,
                   factoryCalls, closeCount, panicked, ret, held, lateMade>>

\* defer p.m.Unlock(), and the return
CloseUnlock(t) ==
    /\ ~panicked
    /\ pc[t] = "close_unlock"
    /\ m' = 0
    /\ closeDone' = TRUE
    /\ Return(t, Nil, how[t])
    /\ UNCHANGED <<constructed, capacity, newRet, resources, chanClosed, closed,
                   factoryCalls, closeCount, panicked, ret, held>>
    /\ lateMade' = lateMade

----------------------------------------------------------------------------

\* One statement of thread t.
Step(t) ==
    \/ AcquireCall(t)
    \/ AcquireSelect(t)
    \/ AcquireFactory(t)
    \/ AcquireReturn(t)
    \/ \E x \in Res : ReleaseCall(t, x)
    \/ ReleaseLock(t)
    \/ ReleaseCheck(t)
    \/ ReleaseClose(t)
    \/ ReleaseSelect(t)
    \/ ReleaseDiscard(t)
    \/ ReleaseUnlock(t)
    \/ CloseCall(t)
    \/ CloseLock(t)
    \/ CloseCheck(t)
    \/ CloseSet(t)
    \/ CloseChan(t)
    \/ CloseRecv(t)
    \/ CloseRes(t)
    \/ CloseUnlock(t)

Construct == \E size \in 0..MaxSize : New(size)

\* Any number of goroutines, any interleaving.
Next == Construct \/ \E t \in Threads : Step(t)

Spec == Init /\ [][Next]_vars

\* A statement of thread t inside a call that waits for nothing but the
\* scheduler.
Progress(t) ==
    \/ AcquireSelect(t)
    \/ AcquireFactory(t)
    \/ AcquireReturn(t)
    \/ ReleaseCheck(t)
    \/ ReleaseClose(t)
    \/ ReleaseSelect(t)
    \/ ReleaseDiscard(t)
    \/ ReleaseUnlock(t)
    \/ CloseCheck(t)
    \/ CloseSet(t)
    \/ CloseChan(t)
    \/ CloseRecv(t)
    \/ CloseRes(t)
    \/ CloseUnlock(t)

\* The scheduler runs every goroutine that can run, and sync.Mutex hands the
\* mutex to every goroutine that keeps waiting for it.  Callers are free
\* never to call anything.
Fairness ==
    \A t \in Threads :
        /\ WF_vars(Progress(t))
        /\ SF_vars(ReleaseLock(t))
        /\ SF_vars(CloseLock(t))

SpecFair == Init /\ [][Next]_vars /\ Fairness

\* One goroutine: the calls follow one another with nothing in between.
NextSeq == Construct \/ Step(1)

SpecSeq == InitSeq /\ [][NextSeq]_vars

----------------------------------------------------------------------------
\* Properties

\* The elements of sequence s.
Range(s) == {s[i] : i \in 1..Len(s)}

\* The number of places of sequence s that hold x.
Count(x, s) == Cardinality({i \in 1..Len(s) : s[i] = x})

\* Thread t, in Release, has not yet queued or closed its r.
Releasing(t, x) ==
    pc[t] \in {"rel_lock", "rel_check", "rel_select"} /\ r[t] = x

\* Thread t, a caller, owns x: it holds it, is being returned it by Acquire, or
\* has passed it to a Release that has not disposed of it yet.
CallerOwns(t, x) ==
    \/ x \in held[t]
    \/ pc[t] = "acq_ret" /\ ret[t].r = x
    \/ Releasing(t, x)

\* C1: a call of Acquire that begins after a Close has returned never reaches
\* the factory, and returns no resource and ErrPoolClosed.
C1_AcquireAfterClose ==
    \A t \in Threads :
        (late[t] /\ InAcquire(t)) =>
            /\ pc[t] # "acq_factory"
            /\ how[t] # "manufacture"
            /\ pc[t] = "acq_ret" =>
                  ret[t] = [r |-> Nil, err |-> ErrPoolClosed]

\* C1 witness: an Acquire called after Close is returning ErrPoolClosed.
C1_Witness ==
    \E t \in Threads :
        /\ late[t]
        /\ pc[t] = "acq_ret"
        /\ ret[t].err = ErrPoolClosed
        /\ factoryCalls > 0

\* C2: a call of Release that begins after a Close has returned never reaches
\* the send, closes its resource exactly once before it returns, and the
\* buffer is empty throughout.
C2_ReleaseAfterClose ==
    /\ closeDone => resources = <<>>
    /\ \A t \in Threads :
          (late[t] /\ InRelease(t)) =>
              /\ pc[t] \notin {"rel_select", "rel_discard"}
              /\ pc[t] \in {"rel_lock", "rel_check", "rel_close"} =>
                    closeCount[r[t]] = 0
              /\ pc[t] = "rel_unlock" =>
                    closeCount[r[t]] = 1 /\ how[t] = "discard_closed"

\* C2 witness: a Release called after Close has closed its resource and is
\* about to return.
C2_Witness ==
    \E t \in Threads :
        /\ late[t]
        /\ pc[t] = "rel_unlock"
        /\ closeCount[r[t]] = 1
        /\ resources = <<>>

\* C3 as stated: when Close returns, every resource that was in the buffer
\* when it was called has been closed exactly once and the buffer is empty.
C3_Original ==
    \A t \in Threads :
        pc[t] = "close_unlock" =>
            /\ resources = <<>>
            /\ \A x \in Range(pre[t]) : closeCount[x] = 1

\* C3 amended: when Close returns the buffer is empty, and every resource
\* that was in the buffer when it was called has been closed exactly once,
\* or has been taken by a concurrent Acquire, is owned by a caller and has
\* not been closed.
C3_CloseDrains ==
    \A t \in Threads :
        pc[t] = "close_unlock" =>
            /\ resources = <<>>
            /\ \A x \in Range(pre[t]) :
                  \/ closeCount[x] = 1 /\ \A u \in Threads : ~CallerOwns(u, x)
                  \/ closeCount[x] = 0 /\ \E u \in Threads : CallerOwns(u, x)

\* C3 witness: a Close that shut the pool down has drained a buffer that was
\* not empty when it was called, and closed what it held.
C3_Witness ==
    \E t \in Threads :
        /\ pc[t] = "close_unlock"
        /\ how[t] = "shutdown"
        /\ Len(pre[t]) > 0
        /\ \A x \in Range(pre[t]) : closeCount[x] = 1

\* C4: no resource's Close is invoked more than once.
C4_NoDoubleClose ==
    \A x \in Res : closeCount[x] <= 1

\* C4 witness: after a Close drained and closed one resource, a Release has
\* closed another and holds the mutex, while a second Close waits for it.
C4_Witness ==
    \E t, u \in Threads :
        /\ pc[t] = "rel_unlock"
        /\ how[t] = "discard_closed"
        /\ closeCount[r[t]] = 1
        /\ pc[u] = "close_lock"
        /\ \E x \in Res \ {r[t]} : closeCount[x] = 1

\* C5: every resource is in at most one place: owned by one caller, or once
\* in the idle buffer.
C5_ExclusiveOwnership ==
    \A x \in Res :
        Cardinality({t \in Threads : CallerOwns(t, x)}) + Count(x, resources) <= 1

\* C5 witness: one resource is held by a caller while another, which a caller
\* released, is in the buffer.
C5_Witness ==
    \E t \in Threads : \E x, y \in Res :
        /\ x # y
        /\ x \in held[t]
        /\ resources = <<y>>
        /\ factoryCalls = 2

\* The calls the observer has recorded, and the last n of them.
Calls == hist.calls
LastCalls(n) == SubSeq(Calls, Len(Calls) - n + 1, Len(Calls))

\* No call is in progress.
Quiet == \A t \in Threads : pc[t] = "idle"

\* A Release on an open pool whose buffer is at capacity closes its resource
\* exactly once and leaves the buffer as it was.
ReleaseAtCapacity ==
    \A t \in Threads :
        /\ pc[t] = "rel_discard" => closeCount[r[t]] = 0
        /\ (pc[t] = "rel_unlock" /\ ~closed /\ Len(pre[t]) = capacity) =>
              /\ how[t] = "discard_full"
              /\ closeCount[r[t]] = 1
              /\ resources = pre[t]

\* The last capacity + 1 calls were calls of Release on the open pool.
ReleaseRun ==
    /\ Quiet
    /\ constructed
    /\ ~closed
    /\ Len(Calls) >= capacity + 1
    /\ \A i \in 1..(capacity + 1) : LastCalls(capacity + 1)[i].op = "Release"

\* The buffer holds the first capacity resources of the run, none of them
\* closed, and the last one of the run has been closed once.
FirstKeptLastClosed ==
    LET run == LastCalls(capacity + 1) IN
    /\ Len(resources) = capacity
    /\ \A i \in 1..capacity :
          resources[i] = run[i].r /\ closeCount[run[i].r] = 0
    /\ closeCount[run[capacity + 1].r] = 1

\* C6 as stated: a Release at capacity closes its resource once and leaves
\* the buffer unchanged, and any capacity + 1 releases in sequence leave the
\* first capacity of them in the buffer and close only the last.
C6_Original ==
    /\ ReleaseAtCapacity
    /\ ReleaseRun => FirstKeptLastClosed

\* C6 amended: the same, for capacity + 1 releases in sequence that start
\* with an empty buffer.
C6_Overflow ==
    /\ ReleaseAtCapacity
    /\ (ReleaseRun /\ LastCalls(capacity + 1)[1].pre = <<>>) =>
          FirstKeptLastClosed

\* C6 witness: three releases in sequence into the empty buffer of a pool of
\* capacity 2 have returned.
C6_Witness ==
    /\ ReleaseRun
    /\ capacity = 2
    /\ LastCalls(capacity + 1)[1].pre = <<>>
    /\ Len(resources) = 2
    /\ LastCalls(capacity + 1)[3].how = "discard_full"

\* C7: every step of a Close on an already closed pool leaves the flag, the
\* channel, its buffer and every resource as they were, takes the early
\* return, and ends with the mutex free again.
C7_CloseIdempotent ==
    [][\A t \in Threads :
          /\ (closed /\ pc[t] \in {"close_lock", "close_check"} /\ pc'[t] # pc[t]) =>
                /\ UNCHANGED <<closed, chanClosed, resources, closeCount,
                               panicked, factoryCalls, held>>
                /\ pc'[t] \in {"close_check", "close_unlock"}
                /\ pc'[t] = "close_unlock" => how'[t] = "noop"
          /\ (pc[t] = "close_unlock" /\ how[t] = "noop" /\ pc'[t] # pc[t]) =>
                /\ UNCHANGED <<closed, chanClosed, resources, closeCount,
                               panicked, factoryCalls, held>>
                /\ pc'[t] = "idle"
                /\ m' = 0
      ]_vars

\* C7 witness: a Close found the pool already closed, after the first Close
\* had closed a resource, and is at its return.
C7_Witness ==
    \E t \in Threads :
        /\ pc[t] = "close_unlock"
        /\ how[t] = "noop"
        /\ closeDone
        /\ \E x \in Res : closeCount[x] = 1

\* The last three calls were an Acquire that returned a resource, the Release
\* that queued it, and an Acquire.
AcquireReleaseAcquire ==
    /\ Len(Calls) >= 3
    /\ LET e == LastCalls(3) IN
       /\ e[1].op = "Acquire"
       /\ e[1].r # Nil
       /\ e[2].op = "Release"
       /\ e[2].r = e[1].r
       /\ e[2].how = "queued"
       /\ e[3].op = "Acquire"

\* C8 as stated: the second Acquire returns the resource just released and
\* does not invoke the factory.
C8_Original ==
    AcquireReleaseAcquire =>
        LET e == LastCalls(3) IN
        /\ e[3].how = "reuse"
        /\ e[3].r = e[1].r

\* C8 amended: the second Acquire does not invoke the factory and returns the
\* oldest resource of the buffer, which is the resource just released when
\* the buffer was empty at its release.
C8_RoundTrip ==
    AcquireReleaseAcquire =>
        LET e == LastCalls(3) IN
        /\ e[3].how = "reuse"
        /\ e[3].r = Head(e[3].pre)
        /\ e[2].pre = <<>> => e[3].r = e[1].r

\* C8 witness: a resource was acquired, released into the empty buffer and
\* acquired again.
C8_Witness ==
    /\ AcquireReleaseAcquire
    /\ LastCalls(3)[2].pre = <<>>
    /\ LastCalls(3)[3].r = LastCalls(3)[1].r

\* C9: when the only calls on a new pool were an Acquire that returned a
\* resource and the Release of that resource, the factory has been invoked
\* once and the buffer holds that resource alone, not closed.
C9_AcquireRelease ==
    ( /\ hist.on
      /\ Quiet
      /\ Len(Calls) = 2
      /\ Calls[1].op = "Acquire"
      /\ Calls[1].r # Nil
      /\ Calls[2].op = "Release"
      /\ Calls[2].r = Calls[1].r ) =>
        /\ factoryCalls = 1
        /\ resources = <<Calls[1].r>>
        /\ closeCount[Calls[1].r] = 0

\* C9 witness: the Acquire and the Release have returned, and the resource
\* is in the buffer.
C9_Witness ==
    /\ Quiet
    /\ Len(Calls) = 2
    /\ Calls[1].op = "Acquire"
    /\ Calls[2].op = "Release"
    /\ Calls[2].r = Calls[1].r
    /\ Len(resources) = 1

\* C10: New with size <= 0 returns the size error and no pool, a pool that
\* exists has a positive capacity, and no call of New invokes the factory.
C10_NewRejectsZero ==
    /\ [](/\ (newRet.called /\ newRet.size <= 0) =>
                (~newRet.pool /\ newRet.err = ErrSize /\ ~constructed)
          /\ constructed => capacity > 0
          /\ ~constructed => factoryCalls = 0)
    /\ [][(newRet' # newRet \/ constructed' # constructed) =>
             (factoryCalls' = factoryCalls /\ resources' = <<>>)]_vars

\* C10 witness: New(fn, 0) has returned the size error and there is no pool.
C10_Witness ==
    /\ newRet.called
    /\ newRet.size = 0
    /\ newRet.err = ErrSize
    /\ ~constructed

\* C11: an Acquire that finds the channel open and empty goes to the factory
\* and changes nothing else; it invokes the factory once, returns the new
\* resource and no error or nil and the factory's error, and neither the
\* factory step nor the return changes the buffer, the channel or the flag.
C11_Manufacture ==
    [][\A t \in Threads :
          /\ ( /\ pc[t] = "acq_select"
               /\ pc'[t] # pc[t]
               /\ resources = <<>>
               /\ ~chanClosed ) =>
                /\ pc'[t] = "acq_factory"
                /\ UNCHANGED <<factoryCalls, resources, chanClosed, closed,
                               closeCount, held, m>>
          /\ (pc[t] = "acq_factory" /\ pc'[t] # pc[t]) =>
                /\ pc'[t] = "acq_ret"
                /\ factoryCalls' = factoryCalls + 1
                /\ \/ ret'[t] = [r |-> factoryCalls + 1, err |-> NoErr]
                   \/ ret'[t] = [r |-> Nil, err |-> ErrFactory]
                /\ UNCHANGED <<resources, chanClosed, closed, closeCount,
                               held, m>>
          /\ (pc[t] = "acq_ret" /\ how[t] = "manufacture" /\ pc'[t] # pc[t]) =>
                /\ pc'[t] = "idle"
                /\ held'[t] = IF ret[t].r = Nil THEN held[t]
                              ELSE held[t] \cup {ret[t].r}
                /\ UNCHANGED <<factoryCalls, resources, chanClosed, closed,
                               closeCount, m>>
      ]_vars

\* C11 witness: an Acquire that found the buffer empty is returning the
\* factory's error, after an earlier one returned a new resource.
C11_Witness ==
    \E t \in Threads :
        /\ pc[t] = "acq_ret"
        /\ how[t] = "manufacture"
        /\ ret[t] = [r |-> Nil, err |-> ErrFactory]
        /\ factoryCalls = 2
        /\ \E u \in Threads : held[u] # {}

\* C12: once p.closed is set, no step adds to the buffer: a step leaves it as
\* it is or removes its oldest resource.
C12_NoGrowthAfterClosed ==
    [][closed => \/ resources' = resources
                 \/ resources # <<>> /\ resources' = Tail(resources)]_vars

\* C12 witness: p.closed is set, the buffer is not yet drained, and a Release
\* of another goroutine waits for the mutex.
C12_Witness ==
    /\ closed
    /\ Len(resources) > 0
    /\ \E t \in Threads : pc[t] = "rel_lock"

\* C13 as stated: every resource that is in the buffer at some moment is
\* eventually closed, and no resource is closed more than once.
C13_Original ==
    /\ [](\A x \in Res : closeCount[x] <= 1)
    /\ \A x \in Res : (Count(x, resources) > 0) ~> (closeCount[x] = 1)

\* C13: no resource is closed more than once and a resource in the buffer has
\* not been closed; a resource that is in the buffer once p.closed is set is
\* eventually closed once, or is in the hands of a caller whose Acquire took
\* it before the drain did.
C13_BufferedClosedOnce ==
    /\ [](\A x \in Res :
             /\ closeCount[x] <= 1
             /\ Count(x, resources) > 0 => closeCount[x] = 0)
    /\ \A x \in Res :
          (closed /\ Count(x, resources) > 0) ~>
              \/ closeCount[x] = 1
              \/ closeCount[x] = 0 /\ \E t \in Threads : CallerOwns(t, x)

\* C13 witness: p.closed is set and the drain has closed the older of the two
\* resources the buffer held when Close was called; the other is still in the
\* buffer, unclosed.
C13_Witness ==
    \E t \in Threads : \E x, y \in Res :
        /\ x # y
        /\ closed
        /\ pc[t] = "close_recv"
        /\ pre[t] = <<x, y>>
        /\ closeCount[x] = 1
        /\ resources = <<y>>
        /\ closeCount[y] = 0

\* C14: p.closed is false until New has run and right after it; a step never
\* changes it from true to false, and the only step that changes it is the
\* assignment in Close, made by the holder of the mutex.
C14_ClosedMonotonic ==
    /\ [](~constructed => ~closed)
    /\ [][ /\ (constructed' /\ ~constructed) => ~closed'
           /\ closed => closed'
           /\ closed' # closed =>
                 \E t \in Threads :
                     /\ pc[t] = "close_set"
                     /\ pc'[t] = "close_chan"
                     /\ m = t ]_vars

\* C14 witness: after the Close that set p.closed has returned, another Close
\* reads the flag, which is still set, and a Release has read it too.
C14_Witness ==
    \E t, u \in Threads :
        /\ closed
        /\ closeDone
        /\ pc[t] = "close_check"
        /\ pc[u] = "rel_lock"
        /\ late[u]

\* C15: wherever a goroutine is inside Acquire, its next step can be taken,
\* whoever holds the mutex and whatever the buffer holds: Acquire waits
\* neither for the mutex nor for an idle resource.
C15_AcquireNeverBlocks ==
    \A t \in Threads :
        InAcquire(t) =>
            ENABLED (AcquireSelect(t) \/ AcquireFactory(t) \/ AcquireReturn(t))

\* C15 witness: an Acquire is at its select, the buffer is empty, while another
\* goroutine holds the mutex inside Close's drain loop.
C15_Witness ==
    \E t, u \in Threads :
        /\ pc[t] = "acq_select"
        /\ pc[u] = "close_res"
        /\ m = u
        /\ resources = <<>>

\* C16 as stated: on a step on which a Release invokes r.Close(), in the
\* pool-is-closed path or in the buffer-is-full path, that Release does not
\* hold the mutex.
C16_Original ==
    [][\A t \in Threads :
          ( /\ pc[t] \in {"rel_close", "rel_discard"}
            /\ pc'[t] = "rel_unlock" ) => m # t]_vars

\* C16: a Release holds the mutex from its Lock to its deferred Unlock: at the
\* flag check, at the send, and also across r.Close() in both discard paths,
\* where it is held before and after the call.
C16_LockHeldAcrossClose ==
    /\ [](\A t \in Threads :
             pc[t] \in {"rel_check", "rel_close", "rel_select", "rel_discard",
                        "rel_unlock"} => m = t)
    /\ [][\A t \in Threads :
             ( /\ pc[t] \in {"rel_close", "rel_discard"}
               /\ pc'[t] = "rel_unlock" ) =>
                 /\ m = t
                 /\ m' = t
                 /\ closeCount'[r[t]] = closeCount[r[t]] + 1]_vars

\* C16 witness: a Release has closed its resource because the buffer was full
\* and still holds the mutex, for which another goroutine's Close waits.
C16_Witness ==
    \E t, u \in Threads :
        /\ pc[t] = "rel_unlock"
        /\ how[t] = "discard_full"
        /\ closeCount[r[t]] = 1
        /\ m = t
        /\ pc[u] = "close_lock"

\* C17: no send on a closed channel and no second close of it ever happens;
\* Close has set p.closed and closed the channel, with the buffer as it was,
\* before its drain loop runs; and the buffer grows only by the send of a
\* Release that holds the mutex while p.closed is false and the channel open.
C17_NoSendOnClosed ==
    /\ [](~panicked)
    /\ [](\A t \in Threads :
             /\ pc[t] \in {"close_recv", "close_res"} =>
                   closed /\ chanClosed /\ m = t
             /\ pc[t] = "rel_select" => ~closed /\ ~chanClosed /\ m = t)
    /\ [][ /\ (chanClosed' /\ ~chanClosed) =>
                 closed /\ resources' = resources
           /\ Len(resources') > Len(resources) =>
                 \E t \in Threads :
                     /\ pc[t] = "rel_select"
                     /\ m = t
                     /\ ~closed
                     /\ ~chanClosed
                     /\ ~chanClosed'
                     /\ resources' = Append(resources, r[t]) ]_vars

\* C17 witness: Close has closed the channel and is draining a buffer that is
\* not empty, while a Release that raced it waits for the mutex with its
\* resource.
C17_Witness ==
    \E t, u \in Threads :
        /\ pc[t] = "close_recv"
        /\ chanClosed
        /\ resources # <<>>
        /\ pc[u] = "rel_lock"
        /\ ~late[u]
        /\ closeCount[r[u]] = 0

\* C18: under fair scheduling every Close, and every Release, that has been
\* called returns, having given the mutex up: the drain loop ends, and a call
\* waiting for the mutex gets it; no goroutine outside Release and Close
\* holds the mutex.
C18_CloseTerminates ==
    /\ [](\A t \in Threads : (~InRelease(t) /\ ~InClose(t)) => m # t)
    /\ \A t \in Threads : InClose(t) ~> (pc[t] = "idle" /\ m # t)
    /\ \A t \in Threads : InRelease(t) ~> (pc[t] = "idle" /\ m # t)
    /\ \A t \in Threads :
          (pc[t] \in {"rel_lock", "close_lock"}) ~> (m = t)

\* C18 witness: a Close that was called while another Close was shutting the
\* pool down has got the mutex after it, found the flag set, and is returning.
C18_Witness ==
    \E t \in Threads :
        /\ pc[t] = "close_unlock"
        /\ how[t] = "noop"
        /\ ~late[t]
        /\ closeDone
        /\ m = t

\* C19: a resource the factory made while p.closed was already set is never
\* in the buffer; the pool closes it only in the Release its caller makes,
\* which closes it once; until then it is in its caller's hands, unclosed.
C19_LateManufacture ==
    /\ [](\A x \in lateMade :
             /\ Count(x, resources) = 0
             /\ closeCount[x] <= 1
             /\ closeCount[x] = 0 =>
                   \E t \in Threads :
                       CallerOwns(t, x) \/ (pc[t] = "rel_close" /\ r[t] = x)
             /\ \A t \in Threads :
                   (pc[t] = "rel_unlock" /\ r[t] = x) => closeCount[x] = 1
             /\ \A t \in Threads :
                   (pc[t] \in {"close_res", "rel_select", "rel_discard"}) =>
                       r[t] # x)
    /\ [][\A x \in lateMade :
             closeCount'[x] # closeCount[x] =>
                 \E t \in Threads :
                     /\ pc[t] = "rel_close"
                     /\ r[t] = x
                     /\ pc'[t] = "rel_unlock"]_vars

\* C19 witness: an Acquire that found the channel open and empty is returning
\* a resource its factory call made after Close had set p.closed, while Close
\* has not closed the channel yet.
C19_Witness ==
    \E t, u \in Threads :
        /\ pc[t] = "acq_ret"
        /\ how[t] = "manufacture"
        /\ ret[t].r # Nil
        /\ ret[t].r \in lateMade
        /\ closed
        /\ ~chanClosed
        /\ pc[u] = "close_chan"

\* C20: a resource in the buffer is there once and has not been closed; a
\* resource an Acquire is returning, or a caller holds, has not been closed
\* and is neither in the buffer nor in the hands of Close's drain; and the
\* resource the drain is about to close is out of the buffer, unclosed, and
\* with no caller.
C20_TakenOnce ==
    /\ \A x \in Res :
          Count(x, resources) > 0 =>
              Count(x, resources) = 1 /\ closeCount[x] = 0
    /\ \A t \in Threads : \A x \in Res :
          ((pc[t] = "acq_ret" /\ ret[t].r = x) \/ x \in held[t]) =>
              /\ closeCount[x] = 0
              /\ Count(x, resources) = 0
              /\ \A u \in Threads : pc[u] = "close_res" => r[u] # x
              /\ \A u \in Threads \ {t} : ~CallerOwns(u, x)
    /\ \A t \in Threads :
          pc[t] = "close_res" =>
              /\ closeCount[r[t]] = 0
              /\ Count(r[t], resources) = 0
              /\ \A u \in Threads : ~CallerOwns(u, r[t])

\* C20 witness: Close was called with one resource in the buffer and has
\* closed the channel; an Acquire that raced it took that resource and is
\* returning it, unclosed, and the drain finds the buffer empty.
C20_Witness ==
    \E t, u \in Threads :
        /\ pc[t] = "acq_ret"
        /\ how[t] = "reuse"
        /\ pc[u] = "close_recv"
        /\ chanClosed
        /\ pre[u] = <<ret[t].r>>
        /\ resources = <<>>
        /\ closeCount[ret[t].r] = 0

====
